---- MODULE Spec2Model ----
(***************************************************************************)
(* Model of goodreads-recommender: the score aggregation of                *)
(* RecommendationEngine, the BookScores container, the filter pipeline and *)
(* the on-disk cache of DownloadService.                                   *)
(*                                                                         *)
(* A BookScores is a Python dict, which remembers insertion order: it is   *)
(* modelled as a sequence of <<book_id, BookScore>> items with distinct    *)
(* book ids.                                                               *)
(***************************************************************************)
EXTENDS Integers, Sequences, FiniteSets, TLC

(***************************************************************************)
(* Bounds of the model.                                                    *)
(***************************************************************************)
MergeKeys == 2
MaxCandidates == 3
MaxBooks == 2
NumReaders == 2
MaxRows == 2
MaxReviewers == 2
MaxFaults == 1
MaxRuns == 3
RankKeys == 3
MaxBatches == 2
MaxVersions == 2
MaxCalls == 4
MaxSeriesRows == 2
MaxGenres == 2

(***************************************************************************)
(* BookScore and BookScores (recommendation_engine.py, lines 15-37).       *)
(***************************************************************************)
BookScore(total_score, number_of_reviews) ==
    [total_score |-> total_score, number_of_reviews |-> number_of_reviews]

merge_overwrite(self, book_score) == book_score

\* a merge in which the score that was stored first is kept
merge_first_wins(self, book_score) ==
    IF book_score.number_of_reviews = 0 THEN self ELSE book_score

merge(self, book_score) ==
    BookScore(book_score.total_score + self.total_score,
              book_score.number_of_reviews + self.number_of_reviews)

EmptyBookScores == << >>

keys(book_scores) == {book_scores[i][1] : i \in 1..Len(book_scores)}

IndexOf(book_scores, book_id) ==
    CHOOSE i \in 1..Len(book_scores) : book_scores[i][1] = book_id

getitem(book_scores, book_id) == book_scores[IndexOf(book_scores, book_id)][2]

\* self.get(book_id) or BookScore(0, 0): a BookScore is a non-empty tuple
\* and therefore always truthy, so the default is used only for a missing key.
get_or_empty(book_scores, book_id) ==
    IF book_id \in keys(book_scores)
    THEN getitem(book_scores, book_id)
    ELSE BookScore(0, 0)

\* dict.__setitem__: an existing key keeps its position, a new key is appended.
setitem(book_scores, book_id, book_score) ==
    IF book_id \in keys(book_scores)
    THEN [book_scores EXCEPT ![IndexOf(book_scores, book_id)] =
              <<book_id, book_score>>]
    ELSE Append(book_scores, <<book_id, book_score>>)

delitem(book_scores, book_id) ==
    SelectSeq(book_scores, LAMBDA item : item[1] # book_id)

RECURSIVE merge_from(_, _, _)
merge_from(self, book_scores, k) ==
    IF k > Len(book_scores)
    THEN self
    ELSE merge_from(
             setitem(self, book_scores[k][1],
                     merge(book_scores[k][2],
                           get_or_empty(self, book_scores[k][1]))),
             book_scores, k + 1)

merge_book_scores(self, book_scores) == merge_from(self, book_scores, 1)

\* A BookScores seen as a mapping book id -> (total_score, number_of_reviews).
AsMapping(book_scores) ==
    [book_id \in keys(book_scores) |-> getitem(book_scores, book_id)]

(***************************************************************************)
(* Documents of the remote site, as far as the program reads them.         *)
(* A review listing has a list of .bookalike.review rows, each with the    *)
(* title of its rating span and the book it links to; it may carry the     *)
(* #privateProfile element and the "Sign in" meta description. A book      *)
(* detail document carries the __NEXT_DATA__ payload with its Review       *)
(* records.                                                                *)
(***************************************************************************)
NoRatingSpan == "<no rating span>"
NoTitle == "<no title attribute>"
None == 0

rating_map ==
    [title \in {"did not like it", "it was ok", "liked it", "really liked it",
                "it was amazing"} |->
        CASE title = "did not like it" -> 1
          [] title = "it was ok" -> 2
          [] title = "liked it" -> 3
          [] title = "really liked it" -> 4
          [] title = "it was amazing" -> 5]

Row(book_id, title) == [book_id |-> book_id, title |-> title]

ReviewPage(rows) ==
    [private |-> FALSE, sign_in |-> FALSE, reviews |-> rows,
     next_data |-> FALSE, apollo_reviews |-> << >>]

\* the private-profile error page also has the "Sign in" text on it
PrivatePage ==
    [private |-> TRUE, sign_in |-> TRUE, reviews |-> << >>,
     next_data |-> FALSE, apollo_reviews |-> << >>]

SignInPage ==
    [private |-> FALSE, sign_in |-> TRUE, reviews |-> << >>,
     next_data |-> FALSE, apollo_reviews |-> << >>]

BookPage(apollo_reviews) ==
    [private |-> FALSE, sign_in |-> FALSE, reviews |-> << >>,
     next_data |-> TRUE, apollo_reviews |-> apollo_reviews]

BrokenBookPage ==
    [private |-> FALSE, sign_in |-> FALSE, reviews |-> << >>,
     next_data |-> FALSE, apollo_reviews |-> << >>]

(***************************************************************************)
(* DownloadService (download_service.py): the cache is a function from the *)
(* cached paths to the stored bodies.                                      *)
(***************************************************************************)
MaxAttempts == 3

Path(kind, id, page_nr) == [kind |-> kind, id |-> id, page_nr |-> page_nr]

get_review_page_path(user_id, page_nr) == Path("review/list", user_id, page_nr)

BookPath(book_id) == Path("book/show", book_id, 0)

\* One remote attempt: requests.get(...) with raise_for_status succeeds with
\* a body, or raises.
Response(body) == [ok |-> TRUE, body |-> body]
Failure == [ok |-> FALSE, body |-> BrokenBookPage]

\* os.remove: raises FileNotFoundError when the path is not cached
delete_from_cache(cache, path) ==
    IF path \in DOMAIN cache
    THEN [raised |-> "none",
          cache |-> [q \in DOMAIN cache \ {path} |-> cache[q]]]
    ELSE [raised |-> "FileNotFoundError", cache |-> cache]

\* timeout=10 * attempts
timeout(attempts) == 10 * attempts

\* requests.get(..., timeout=10 * attempts) and response.raise_for_status():
\* what the site serves for an attempt arrives in time and without an error
\* status, or the attempt raises
try_request(served, attempts) ==
    IF served.status = "ok" /\ served.latency < timeout(attempts)
    THEN Response(served.body)
    ELSE Failure

RECURSIVE request_loop_retries_once(_, _)
\* a loop that gives up after the second attempt
request_loop_retries_once(responses, attempts) ==
    IF responses[attempts].ok
    THEN [raised |-> "none", content |-> responses[attempts].body,
          attempts |-> attempts]
    ELSE IF attempts >= 2
    THEN [raised |-> "RequestException", content |-> BrokenBookPage,
          attempts |-> attempts]
    ELSE request_loop_retries_once(responses, attempts + 1)

RECURSIVE request_loop(_, _)
\* the while True loop of get: attempts is the value after attempts += 1
request_loop(responses, attempts) ==
    IF responses[attempts].ok
    THEN [raised |-> "none", content |-> responses[attempts].body,
          attempts |-> attempts]
    ELSE IF attempts >= MaxAttempts
    THEN [raised |-> "RequestException", content |-> BrokenBookPage,
          attempts |-> attempts]
    ELSE request_loop(responses, attempts + 1)

\* a get that asks the site even when the path is cached
get_always_requests(cache, path, responses) ==
    LET r == request_loop(responses, 1)
    IN  IF r.raised # "none"
        THEN [raised |-> r.raised, soup |-> BrokenBookPage,
              cache |-> cache, attempts |-> r.attempts]
        ELSE [raised |-> "none", soup |-> r.content,
              cache |-> [q \in DOMAIN cache \cup {path} |->
                            IF q = path THEN r.content ELSE cache[q]],
              attempts |-> r.attempts]

\* DownloadService.get: the cached body, or the body of the first successful
\* attempt, which is written to the cache before it is returned.
get(cache, path, responses) ==
    IF path \in DOMAIN cache
    THEN [raised |-> "none", soup |-> cache[path], cache |-> cache,
          attempts |-> 0]
    ELSE LET r == request_loop(responses, 1)
         IN  IF r.raised # "none"
             THEN [raised |-> r.raised, soup |-> BrokenBookPage,
                   cache |-> cache, attempts |-> r.attempts]
             ELSE [raised |-> "none", soup |-> r.content,
                   cache |-> [q \in DOMAIN cache \cup {path} |->
                                 IF q = path THEN r.content ELSE cache[q]],
                   attempts |-> r.attempts]

(***************************************************************************)
(* RecommendationEngine._get_rating and _get_users_book_scores             *)
(* (recommendation_engine.py, lines 148-205).                              *)
(***************************************************************************)
num_review_pages_to_scrape == 2

\* the rating of one review row: None, an integer, or a KeyError of
\* rating_map[str(title)]
get_rating(review) ==
    IF review.title = NoRatingSpan
    THEN [raised |-> "none", rating |-> None]
    ELSE IF review.title = NoTitle
    THEN [raised |-> "none", rating |-> None]
    ELSE IF review.title \in DOMAIN rating_map
    THEN [raised |-> "none", rating |-> rating_map[review.title]]
    ELSE [raised |-> "KeyError", rating |-> None]

RECURSIVE scan_reviews_adds_duplicates(_, _, _, _)
\* a variant in which a later row of a book is added to the earlier one
scan_reviews_adds_duplicates(reviews, k, book_scores, minimum_review_score) ==
    IF k > Len(reviews)
    THEN [raised |-> "none", book_scores |-> book_scores]
    ELSE LET r == get_rating(reviews[k])
         IN  IF r.raised # "none"
             THEN [raised |-> r.raised, book_scores |-> book_scores]
             ELSE IF r.rating = None \/ r.rating < minimum_review_score
             THEN scan_reviews_adds_duplicates(reviews, k + 1, book_scores,
                                               minimum_review_score)
             ELSE scan_reviews_adds_duplicates(
                      reviews, k + 1,
                      setitem(book_scores, reviews[k].book_id,
                              merge(BookScore(r.rating, 1),
                                    get_or_empty(book_scores,
                                                 reviews[k].book_id))),
                      minimum_review_score)

RECURSIVE scan_reviews(_, _, _, _)
\* for review in reviews_soup.select(".bookalike.review")
scan_reviews(reviews, k, book_scores, minimum_review_score) ==
    IF k > Len(reviews)
    THEN [raised |-> "none", book_scores |-> book_scores]
    ELSE LET r == get_rating(reviews[k])
         IN  IF r.raised # "none"
             THEN [raised |-> r.raised, book_scores |-> book_scores]
             ELSE IF r.rating = None \/ r.rating < minimum_review_score
             THEN scan_reviews(reviews, k + 1, book_scores,
                               minimum_review_score)
             ELSE scan_reviews(reviews, k + 1,
                               setitem(book_scores, reviews[k].book_id,
                                       BookScore(r.rating, 1)),
                               minimum_review_score)

RECURSIVE scan_pages(_, _, _, _, _, _, _, _)
\* for page_nr in range(1, num_review_pages_to_scrape + 1); the result holds
\* the returned BookScores (the local book_scores when an exception leaves
\* the function), the cache as the calls left it, the documents read and the
\* number of remote attempts made.
scan_pages(cache, user_id, minimum_review_score, pages, responses, page_nr, book_scores, seen) ==
    IF page_nr > pages
    THEN [raised |-> "none", book_scores |-> book_scores, cache |-> cache,
          seen |-> seen, last_page |-> pages]
    ELSE LET path == get_review_page_path(user_id, page_nr)
             g == get(cache, path, responses[page_nr])
         IN  IF g.raised # "none"
             THEN [raised |-> g.raised, book_scores |-> book_scores,
                   cache |-> g.cache, seen |-> seen, last_page |-> page_nr]
             ELSE IF g.soup.private
             THEN [raised |-> "none", book_scores |-> EmptyBookScores,
                   cache |-> g.cache, seen |-> Append(seen, g.soup),
                   last_page |-> page_nr]
             ELSE IF g.soup.sign_in
             THEN [raised |-> "Not logged in", book_scores |-> book_scores,
                   cache |-> delete_from_cache(g.cache, path).cache,
                   seen |-> Append(seen, g.soup), last_page |-> page_nr]
             ELSE LET r == scan_reviews(g.soup.reviews, 1, book_scores,
                                        minimum_review_score)
                  IN  IF r.raised # "none"
                      THEN [raised |-> r.raised,
                            book_scores |-> r.book_scores,
                            cache |-> g.cache, seen |-> Append(seen, g.soup),
                            last_page |-> page_nr]
                      ELSE scan_pages(g.cache, user_id, minimum_review_score,
                                      pages, responses, page_nr + 1,
                                      r.book_scores, Append(seen, g.soup))

\* a variant that returns the rows parsed before the private page
get_users_book_scores_keeps_rows(cache, user_id, minimum_review_score, pages, responses) ==
    LET r == scan_pages(cache, user_id, minimum_review_score, pages, responses,
                        1, EmptyBookScores, << >>)
    IN  IF Len(r.seen) >= 2 /\ r.seen[Len(r.seen)].private
        THEN [r EXCEPT !.book_scores =
                 scan_reviews(r.seen[1].reviews, 1, EmptyBookScores,
                              minimum_review_score).book_scores]
        ELSE r

get_users_book_scores(cache, user_id, minimum_review_score, pages, responses) ==
    scan_pages(cache, user_id, minimum_review_score, pages, responses, 1,
               EmptyBookScores, << >>)

(***************************************************************************)
(* Book.__init__ and Book.get_user_ids_who_liked_book (book.py, 12-53).    *)
(***************************************************************************)
\* Book(book_id, ...): downloads the detail document and reads its
\* __NEXT_DATA__ payload; select(...)[0] raises when the payload is absent.
Book(cache, book_id, responses) ==
    LET g == get(cache, BookPath(book_id), responses)
    IN  IF g.raised # "none"
        THEN [raised |-> g.raised, cache |-> g.cache, soup |-> g.soup]
        ELSE IF ~g.soup.next_data
        THEN [raised |-> "IndexError", cache |-> g.cache, soup |-> g.soup]
        ELSE [raised |-> "none", cache |-> g.cache, soup |-> g.soup]

RECURSIVE liked_from(_, _, _)
liked_from(apollo_reviews, k, minimum_score) ==
    IF k > Len(apollo_reviews)
    THEN << >>
    ELSE IF apollo_reviews[k].rating < minimum_score
    THEN liked_from(apollo_reviews, k + 1, minimum_score)
    ELSE <<apollo_reviews[k].creator>>
             \o liked_from(apollo_reviews, k + 1, minimum_score)

get_user_ids_who_liked_book(soup) == liked_from(soup.apollo_reviews, 1, 4)

(***************************************************************************)
(* BookScores.get_recommendations (recommendation_engine.py, lines 39-59). *)
(***************************************************************************)
RECURSIVE insert_sorted_before_ties(_, _)
\* a sort that is not stable: an item goes before the items with its key
insert_sorted_before_ties(sorted_items, item) ==
    IF sorted_items = << >>
    THEN <<item>>
    ELSE IF -item[2].number_of_reviews <= -Head(sorted_items)[2].number_of_reviews
    THEN <<item>> \o sorted_items
    ELSE <<Head(sorted_items)>>
             \o insert_sorted_before_ties(Tail(sorted_items), item)

RECURSIVE insert_sorted(_, _)
\* sorted() is stable: an item goes after every item whose key is not larger
insert_sorted(sorted_items, item) ==
    IF sorted_items = << >>
    THEN <<item>>
    ELSE IF -item[2].number_of_reviews < -Head(sorted_items)[2].number_of_reviews
    THEN <<item>> \o sorted_items
    ELSE <<Head(sorted_items)>> \o insert_sorted(Tail(sorted_items), item)

RECURSIVE sorted_by_reviews(_, _)
sorted_by_reviews(items, k) ==
    IF k = 0
    THEN << >>
    ELSE insert_sorted(sorted_by_reviews(items, k - 1), items[k])

\* book_score.total_score / book_score.number_of_reviews raises
\* ZeroDivisionError for an entry without reviews
zero_division(book_scores) ==
    \E k \in 1..Len(book_scores) : book_scores[k][2].number_of_reviews = 0

get_recommendations_above(book_scores, minimum_rating) ==
    SelectSeq(sorted_by_reviews(book_scores, Len(book_scores)),
              LAMBDA item : item[2].total_score
                                > minimum_rating * item[2].number_of_reviews)

\* the sorted items whose average reaches minimum_rating. The scores are
\* sums of integer ratings, for which the float quotient total / n reaches
\* the integer minimum_rating exactly when total >= minimum_rating * n.
get_recommendations(book_scores, minimum_rating) ==
    SelectSeq(sorted_by_reviews(book_scores, Len(book_scores)),
              LAMBDA item : item[2].total_score
                                >= minimum_rating * item[2].number_of_reviews)

\* a call of self.get_recommendations(minimum_rating): sorted() builds a new
\* list and the result is a new BookScores, self is only read
get_recommendations_call(self, minimum_rating) ==
    [self |-> self, returned |-> get_recommendations(self, minimum_rating)]

(***************************************************************************)
(* Inputs of the pure-function specifications.                             *)
(***************************************************************************)
RECURSIVE OrderedDicts(_, _)
\* every BookScores over the given keys whose values come from the given set
OrderedDicts(ks, values) ==
    IF ks = {}
    THEN {<< >>}
    ELSE {<< >>} \cup
         UNION {{<<<<k, v>>>> \o rest : rest \in OrderedDicts(ks \ {k}, values)}
                    : <<k, v>> \in ks \X values}

ScoreValues == {BookScore(4, 1), BookScore(9, 2)}

VARIABLES
    phase,          \* which specification's machine is running, and where
    m_a, m_b, m_c,  \* BookScores operands of merge_book_scores
    m_x, m_y, m_z,  \* BookScore operands of BookScore.merge
    m_out,          \* results of the merges
    f_book_scores,  \* the ranked candidates handed to _filter_book_scores
    f_outcome,      \* per candidate: what Book(...) and book_filter(...) do
    f_max_books,    \* max_books
    f_pos,          \* position of the for loop over book_scores.items()
    filtered_book_scores,
    site,           \* which reviews the remote site has to show
    faults,         \* remote responses so far that were no regular document
    runs_left,      \* how many more times the program is started
    goodreads_cache,            \* the goodreads_cache directory
    pickle_file,                \* cached_book_scores_<user>.pickle, if any
    pickle_book_scores,         \* argument of recommend
    page_nr,                    \* loop variable of the invalidation loop
    own_book_scores,
    own_seen,                   \* the documents the scan of the own reviews read
    accumulated_book_scores,    \* of _get_book_scores_of_users_who_read_...
    own_index,                  \* position of the loop over own_book_scores
    other_readers_user_ids,
    user_index,                 \* position of the loop over user_ids
    users_book_scores,          \* accumulated_book_scores of
                                \* _get_book_scores_of_users
    book_scores,                \* book_scores of recommend
    recommendations,
    raised,         \* the exception that ended the run, or "none"
    calls,          \* what the current run has called so far
    log,            \* the review scans of co-readers in the current run
    r_batches,      \* per-co-reader BookScores, in the order they are merged
    r_order,        \* another order in which the same batches are merged
    r_pos,          \* how many batches have been merged
    r_acc,          \* the accumulator of the merges in the first order
    r_acc_other,    \* the accumulator of the merges in the other order
    r_minimum_rating,
    r_first,        \* what get_recommendations returned for r_acc
    r_other,        \* what get_recommendations returned for r_acc_other
    r_again,        \* what a second call returned for r_acc
    d_cache,        \* the goodreads_cache directory of the DownloadService
    d_path,         \* the path of the call of get
    d_served,       \* what the site serves for each attempt of the call
    d_result,       \* what the call returned or raised
    d_history,      \* the calls of get and delete_from_cache made so far
    b_book,         \* a constructed Book: what its documents hold
    b_cache,        \* the goodreads_cache directory the Book reads through
    b_result        \* what the called method of the Book returned

mergeVars == <<m_a, m_b, m_c, m_x, m_y, m_z, m_out>>
filterVars == <<f_book_scores, f_outcome, f_max_books, f_pos,
                filtered_book_scores>>
runVars == <<site, faults, runs_left, goodreads_cache, pickle_file,
             pickle_book_scores, page_nr, own_book_scores, own_seen,
             accumulated_book_scores, own_index, other_readers_user_ids,
             user_index,
             users_book_scores, book_scores, recommendations, raised, calls,
             log>>
rankVars == <<r_batches, r_order, r_pos, r_acc, r_acc_other,
              r_minimum_rating, r_first, r_other, r_again>>
downloadVars == <<d_cache, d_path, d_served, d_result, d_history>>
bookVars == <<b_book, b_cache, b_result>>
pureVars == <<rankVars, downloadVars, bookVars>>
vars == <<phase, mergeVars, filterVars, runVars, pureVars>>

NoMerge ==
    /\ m_a = << >> /\ m_b = << >> /\ m_c = << >>
    /\ m_x = BookScore(0, 0) /\ m_y = BookScore(0, 0) /\ m_z = BookScore(0, 0)
    /\ m_out = [done |-> FALSE]

NoRun ==
    /\ site = "none"
    /\ faults = 0
    /\ runs_left = 0
    /\ goodreads_cache = << >>
    /\ pickle_file = << >>
    /\ pickle_book_scores = FALSE
    /\ page_nr = 1
    /\ own_book_scores = << >>
    /\ own_seen = << >>
    /\ accumulated_book_scores = << >>
    /\ own_index = 1
    /\ other_readers_user_ids = << >>
    /\ user_index = 1
    /\ users_book_scores = << >>
    /\ book_scores = << >>
    /\ recommendations = << >>
    /\ raised = "none"
    /\ calls = {}
    /\ log = << >>

NoFilter ==
    /\ f_book_scores = << >>
    /\ f_outcome = << >>
    /\ f_max_books = 0
    /\ f_pos = 0
    /\ filtered_book_scores = << >>

NoRank ==
    /\ r_batches = << >>
    /\ r_order = << >>
    /\ r_pos = 0
    /\ r_acc = << >>
    /\ r_acc_other = << >>
    /\ r_minimum_rating = 0
    /\ r_first = << >>
    /\ r_other = << >>
    /\ r_again = << >>

NoDownload ==
    /\ d_cache = << >>
    /\ d_path = BookPath("none")
    /\ d_served = << >>
    /\ d_result = [done |-> FALSE]
    /\ d_history = << >>

NoBook ==
    /\ b_book = << >>
    /\ b_cache = << >>
    /\ b_result = [done |-> FALSE]

NoPure == NoRank /\ NoDownload /\ NoBook

(***************************************************************************)
(* SpecMerge: BookScore.merge and BookScores.merge_book_scores applied to  *)
(* bounded operands.                                                       *)
(***************************************************************************)
InitMerge ==
    /\ phase = "merge"
    /\ NoFilter
    /\ NoRun
    /\ NoPure
    /\ m_out = [done |-> FALSE]
    /\ \/ /\ m_a \in OrderedDicts(1..MergeKeys, ScoreValues)
          /\ m_b \in OrderedDicts(1..MergeKeys, ScoreValues)
          /\ m_c \in OrderedDicts(1..MergeKeys, ScoreValues)
          /\ m_x = BookScore(0, 0) /\ m_y = BookScore(0, 0)
          /\ m_z = BookScore(0, 0)
       \/ /\ m_a = << >> /\ m_b = << >> /\ m_c = << >>
          /\ m_x \in ScoreValues \cup {BookScore(0, 0)}
          /\ m_y \in ScoreValues \cup {BookScore(0, 0)}
          /\ m_z \in ScoreValues \cup {BookScore(0, 0)}

Merge ==
    /\ phase = "merge"
    /\ ~m_out.done
    /\ m_out' = [done |-> TRUE,
                 ab |-> merge_book_scores(m_a, m_b),
                 ba |-> merge_book_scores(m_b, m_a),
                 ab_c |-> merge_book_scores(merge_book_scores(m_a, m_b), m_c),
                 a_bc |-> merge_book_scores(m_a, merge_book_scores(m_b, m_c)),
                 a_e |-> merge_book_scores(m_a, EmptyBookScores),
                 e_a |-> merge_book_scores(EmptyBookScores, m_a),
                 xy |-> merge(m_x, m_y),
                 yx |-> merge(m_y, m_x),
                 xy_z |-> merge(merge(m_x, m_y), m_z),
                 x_yz |-> merge(m_x, merge(m_y, m_z)),
                 x_e |-> merge(m_x, BookScore(0, 0)),
                 e_x |-> merge(BookScore(0, 0), m_x)]
    /\ UNCHANGED <<pureVars, phase, m_a, m_b, m_c, m_x, m_y, m_z, filterVars, runVars>>

NextMerge == Merge

SpecMerge == InitMerge /\ [][NextMerge]_vars

(***************************************************************************)
(* RecommendationEngine._filter_book_scores                                *)
(* (recommendation_engine.py, lines 214-246).                              *)
(***************************************************************************)
\* What the body of the try does for one candidate: constructing the Book
\* raises, book_filter raises, or book_filter returns keep.
FilterOutcomes == {"book_raises", "filter_raises", "false", "true"}

\* One iteration of the for loop: the filtered dict after it, and whether the
\* loop is left with break.
filter_iteration_raise_breaks(filtered, item, outcome, max_books) ==
    IF outcome \in {"book_raises", "filter_raises"}
    THEN [filtered |-> filtered, break |-> TRUE]
    ELSE IF outcome = "false"
    THEN [filtered |-> filtered, break |-> FALSE]
    ELSE [filtered |-> setitem(filtered, item[1], item[2]),
          break |-> Len(setitem(filtered, item[1], item[2])) >= max_books]

filter_iteration(filtered, item, outcome, max_books) ==
    IF outcome \in {"book_raises", "filter_raises"}
    THEN \* except Exception: ... continue
         [filtered |-> filtered, break |-> FALSE]
    ELSE IF outcome = "false"
    THEN \* if not keep: continue
         [filtered |-> filtered, break |-> FALSE]
    ELSE [filtered |-> setitem(filtered, item[1], item[2]),
          break |-> Len(setitem(filtered, item[1], item[2])) >= max_books]

\* The ranked candidates: get_recommendations returns entries with an average
\* of at least 4, ordered by number_of_reviews descending.
CandidateScore(book_id) == BookScore(4 + (book_id % 2), 1)

RECURSIVE Orderings(_)
Orderings(ks) ==
    IF ks = {}
    THEN {<< >>}
    ELSE UNION {{<<k>> \o rest : rest \in Orderings(ks \ {k})} : k \in ks}

RankedCandidates ==
    {[i \in 1..Len(p) |-> <<p[i], CandidateScore(p[i])>>] :
        p \in UNION {Orderings(ks) : ks \in SUBSET (1..MaxCandidates)}}

InitFilter ==
    /\ phase = "filter"
    /\ NoMerge
    /\ NoRun
    /\ NoPure
    /\ f_book_scores \in RankedCandidates
    /\ f_outcome \in [1..MaxCandidates -> FilterOutcomes]
    /\ f_max_books \in 0..MaxBooks
    /\ f_pos = 1
    /\ filtered_book_scores = EmptyBookScores

\* for book_id, score in book_scores.items(): one iteration
FilterIterate ==
    /\ phase = "filter"
    /\ f_pos <= Len(f_book_scores)
    /\ LET step == filter_iteration(filtered_book_scores,
                                    f_book_scores[f_pos],
                                    f_outcome[f_book_scores[f_pos][1]],
                                    f_max_books)
       IN  /\ filtered_book_scores' = step.filtered
           /\ f_pos' = f_pos + 1
           /\ phase' = IF step.break THEN "filter_returned" ELSE "filter"
    /\ UNCHANGED <<pureVars, mergeVars, runVars, f_book_scores, f_outcome, f_max_books>>

\* the loop is exhausted: return filtered_book_scores
FilterReturn ==
    /\ phase = "filter"
    /\ f_pos > Len(f_book_scores)
    /\ phase' = "filter_returned"
    /\ UNCHANGED <<pureVars, mergeVars, filterVars, runVars>>

NextFilter == FilterIterate \/ FilterReturn

SpecFilter == InitFilter /\ [][NextFilter]_vars

(***************************************************************************)
(* SpecRank: per-co-reader score batches are merged into an accumulator in *)
(* two orders, as the loop of _get_book_scores_of_users does               *)
(* (recommendation_engine.py, lines 248-263), and get_recommendations is   *)
(* called on the results.                                                  *)
(***************************************************************************)
\* the rating batch b gives to book_id
RankRating(b, book_id) == 3 + ((b + book_id) % 3)

\* the order in which the listing of batch b shows the books
RankListing(b) == [n \in 1..RankKeys |-> ((n + b - 2) % RankKeys) + 1]

RECURSIVE SubSeqs(_, _)
\* the subsequences of seq with at most n elements
SubSeqs(seq, n) ==
    IF seq = << >> \/ n = 0
    THEN {<< >>}
    ELSE SubSeqs(Tail(seq), n)
             \cup {<<Head(seq)>> \o rest : rest \in SubSeqs(Tail(seq), n - 1)}

\* the results a scan of one co-reader can have: some of the books of the
\* listing, each with one review
RankBatches(b) ==
    {[n \in 1..Len(p) |-> <<p[n], BookScore(RankRating(b, p[n]), 1)>>] :
        p \in SubSeqs(RankListing(b), RankKeys)}

MinimumRatings == 3..5

InitRank ==
    /\ phase = "rank_fold"
    /\ NoMerge
    /\ NoFilter
    /\ NoBook
    /\ NoRun
    /\ NoDownload
    /\ r_batches \in {bs \in [1..MaxBatches -> UNION {RankBatches(b) : b \in 1..MaxBatches}] :
                          \A b \in 1..MaxBatches : bs[b] \in RankBatches(b)}
    /\ r_order \in Orderings(1..MaxBatches)
    /\ r_pos = 0
    /\ r_acc = EmptyBookScores
    /\ r_acc_other = EmptyBookScores
    /\ r_minimum_rating = 0
    /\ r_first = << >>
    /\ r_other = << >>
    /\ r_again = << >>

\* accumulated_book_scores.merge_book_scores(their_book_scores), for the next
\* batch of either order
RankMergeBatch ==
    /\ phase = "rank_fold"
    /\ r_pos < Len(r_batches)
    /\ r_pos' = r_pos + 1
    /\ r_acc' = merge_book_scores(r_acc, r_batches[r_pos + 1])
    /\ r_acc_other' =
           merge_book_scores(r_acc_other, r_batches[r_order[r_pos + 1]])
    /\ UNCHANGED <<phase, mergeVars, filterVars, runVars, downloadVars, bookVars,
                   r_batches, r_order, r_minimum_rating, r_first, r_other,
                   r_again>>

\* get_recommendations is called on both accumulators
RankGet ==
    /\ phase = "rank_fold"
    /\ r_pos = Len(r_batches)
    /\ \E minimum_rating \in MinimumRatings :
          LET call == get_recommendations_call(r_acc, minimum_rating)
          IN  /\ r_minimum_rating' = minimum_rating
              /\ IF zero_division(r_acc) \/ zero_division(r_acc_other)
                 THEN /\ phase' = "rank_raised"
                      /\ UNCHANGED <<r_first, r_acc, r_other>>
                 ELSE /\ phase' = "rank_once"
                      /\ r_first' = call.returned
                      /\ r_acc' = call.self
                      /\ r_other' = get_recommendations_call(
                                        r_acc_other, minimum_rating).returned
    /\ UNCHANGED <<mergeVars, filterVars, runVars, downloadVars, bookVars, r_batches,
                   r_order, r_pos, r_acc_other, r_again>>

\* get_recommendations is called again on the first accumulator
RankGetAgain ==
    /\ phase = "rank_once"
    /\ LET call == get_recommendations_call(r_acc, r_minimum_rating)
       IN  /\ r_again' = call.returned
           /\ r_acc' = call.self
    /\ phase' = "rank_twice"
    /\ UNCHANGED <<mergeVars, filterVars, runVars, downloadVars, bookVars, r_batches,
                   r_order, r_pos, r_acc_other, r_minimum_rating, r_first,
                   r_other>>

NextRank == RankMergeBatch \/ RankGet \/ RankGetAgain

SpecRank == InitRank /\ [][NextRank]_vars

(***************************************************************************)
(* SpecGet: one call of DownloadService.get (download_service.py, lines    *)
(* 19-62) on a cache directory, for every answer of the site to its        *)
(* attempts. SpecCache: a sequence of calls of get and delete_from_cache   *)
(* by one process.                                                         *)
(***************************************************************************)
\* every attempt of a call fails
AllFail == <<Failure, Failure, Failure>>

DownloadPaths == {BookPath("bookA"), BookPath("bookB")}

\* the documents the site has for a path over time
Contents == {BookPage(<<[rating |-> 5, creator |-> v]>>) : v \in 1..MaxVersions}

\* seconds until the site has answered an attempt
Latencies == {5, 15, 25}

Served ==
    {[status |-> "error", latency |-> 5, body |-> BrokenBookPage]}
        \cup {[status |-> "ok", latency |-> l, body |-> c] :
                  l \in Latencies, c \in Contents}

Caches ==
    UNION {[ps -> Contents] : ps \in SUBSET DownloadPaths}

InitGet ==
    /\ phase = "get"
    /\ NoMerge
    /\ NoFilter
    /\ NoBook
    /\ NoRun
    /\ NoRank
    /\ d_cache \in Caches
    /\ d_path \in DownloadPaths
    /\ d_served \in [1..MaxAttempts -> Served]
    /\ d_result = [done |-> FALSE]
    /\ d_history = << >>

\* self.download_service.get(path)
DownloadGet ==
    /\ phase = "get"
    /\ LET g == get(d_cache, d_path,
                    [k \in 1..MaxAttempts |-> try_request(d_served[k], k)])
       IN  /\ d_result' = [done |-> TRUE, raised |-> g.raised,
                           soup |-> g.soup, attempts |-> g.attempts,
                           timeouts |-> [k \in 1..g.attempts |-> timeout(k)]]
           /\ d_cache' = g.cache
    /\ phase' = "get_returned"
    /\ UNCHANGED <<mergeVars, filterVars, runVars, rankVars, bookVars, d_path, d_served,
                   d_history>>

NextGet == DownloadGet

SpecGet == InitGet /\ [][NextGet]_vars

InitCache ==
    /\ phase = "cache"
    /\ NoMerge
    /\ NoFilter
    /\ NoBook
    /\ NoRun
    /\ NoRank
    /\ d_cache = << >>
    /\ d_path = BookPath("none")
    /\ d_served = << >>
    /\ d_result = [done |-> FALSE]
    /\ d_history = << >>

\* a call of get for some path; the site fails every attempt or answers
\* with the document it has at that time
CacheGet ==
    /\ phase = "cache"
    /\ Len(d_history) < MaxCalls
    /\ \E path \in DownloadPaths,
          responses \in {AllFail} \cup {<<Response(c)>> : c \in Contents} :
          LET g == get(d_cache, path, responses)
          IN  /\ d_cache' = g.cache
              /\ d_history' = Append(d_history,
                                     [op |-> "get", path |-> path,
                                      raised |-> g.raised, soup |-> g.soup,
                                      attempts |-> g.attempts])
    /\ UNCHANGED <<phase, mergeVars, filterVars, runVars, rankVars, bookVars, d_path,
                   d_served, d_result>>

\* a call of delete_from_cache for some path
CacheDelete ==
    /\ phase = "cache"
    /\ Len(d_history) < MaxCalls
    /\ \E path \in DownloadPaths :
          LET d == delete_from_cache(d_cache, path)
          IN  /\ d_cache' = d.cache
              /\ d_history' = Append(d_history,
                                     [op |-> "delete_from_cache",
                                      path |-> path, raised |-> d.raised,
                                      soup |-> BrokenBookPage,
                                      attempts |-> 0])
    /\ UNCHANGED <<phase, mergeVars, filterVars, runVars, rankVars, bookVars, d_path,
                   d_served, d_result>>

NextCache == CacheGet \/ CacheDelete

SpecCache == InitCache /\ [][NextCache]_vars

(***************************************************************************)
(* Book.does_audiobook_exist, Book.get_genres, Book.get_series and         *)
(* Book.get_series_book_ids (book.py, lines 93-150 and 184-214). A Book    *)
(* holds what its detail document and metadata payload say: whether the    *)
(* document contains "shelf=audiobook", the genres of the bookGenres       *)
(* entries, the ids of the entries with an "editions" key and the ids of   *)
(* the entries of kind Series, each in document order.                     *)
(***************************************************************************)
EditionsPath(id) == Path("work/editions", id, 100)

SeriesPath(series_id) == Path("series", series_id, 0)

EditionsPage(formats) == [formats |-> formats, rows |-> << >>]

SeriesPage(rows) == [formats |-> {}, rows |-> rows]

\* the strings that indicate an audiobook in an editions listing
audiobook_markers ==
    {"Audible Studios", "Audio CD,", "Audiobook,", "Audible Audio,",
     "Unabridged"}

get_genres(book) == book.genres

\* a variant that looks at the editions listing before the genres
does_audiobook_exist_editions_first(book, cache, responses) ==
    IF book.shelf_audiobook
    THEN [raised |-> "none", returned |-> TRUE, cache |-> cache,
          calls |-> << >>]
    ELSE IF book.editions = << >>
    THEN [raised |-> "none", returned |-> FALSE, cache |-> cache,
          calls |-> <<"log">>]
    ELSE LET g == get(cache, EditionsPath(book.editions[1]), responses)
         IN  IF g.raised # "none"
             THEN [raised |-> g.raised, returned |-> FALSE,
                   cache |-> g.cache, calls |-> <<"_get_editions_soup">>]
             ELSE IF g.soup.formats \cap audiobook_markers # {}
             THEN [raised |-> "none", returned |-> TRUE, cache |-> g.cache,
                   calls |-> <<"_get_editions_soup">>]
             ELSE [raised |-> "none",
                   returned |-> \E k \in 1..Len(get_genres(book)) :
                                   get_genres(book)[k]
                                       \in {"audible", "audiobook"},
                   cache |-> g.cache,
                   calls |-> <<"_get_editions_soup", "get_genres">>]

\* the result, the cache afterwards and the calls made on the way
does_audiobook_exist(book, cache, responses) ==
    IF book.shelf_audiobook
    THEN [raised |-> "none", returned |-> TRUE, cache |-> cache,
          calls |-> << >>]
    ELSE IF \E k \in 1..Len(get_genres(book)) :
                get_genres(book)[k] \in {"audible", "audiobook"}
    THEN [raised |-> "none", returned |-> TRUE, cache |-> cache,
          calls |-> <<"get_genres">>]
    ELSE IF book.editions = << >>
    THEN \* somehow the editions-id is missing
         [raised |-> "none", returned |-> FALSE, cache |-> cache,
          calls |-> <<"get_genres", "log">>]
    ELSE LET g == get(cache, EditionsPath(book.editions[1]), responses)
         IN  IF g.raised # "none"
             THEN [raised |-> g.raised, returned |-> FALSE,
                   cache |-> g.cache,
                   calls |-> <<"get_genres", "_get_editions_soup">>]
             ELSE [raised |-> "none",
                   returned |-> g.soup.formats \cap audiobook_markers # {},
                   cache |-> g.cache,
                   calls |-> <<"get_genres", "_get_editions_soup">>]

get_series(book) == IF book.series = << >> THEN None ELSE book.series[1]

Digits == {"0", "1", "2", "3", "4", "5", "6", "7", "8", "9"}

BookPrefix == <<"B", "o", "o", "k", " ">>

\* re.match(r"^Book \d(.\d)?$", title), for a title given as its characters:
\* one digit, optionally followed by any character but a newline and one
\* more digit; $ also matches before a newline that ends the title
re_match(title) ==
    /\ Len(title) >= 6
    /\ SubSeq(title, 1, 5) = BookPrefix
    /\ title[6] \in Digits
    /\ \/ Len(title) = 6
       \/ Len(title) = 7 /\ title[7] = "\n"
       \/ /\ Len(title) \in {8, 9}
          /\ title[7] # "\n"
          /\ title[8] \in Digits
          /\ Len(title) = 9 => title[9] = "\n"

RECURSIVE series_rows(_, _)
\* for row in rows: the hrefs of the rows whose title matches
series_rows(rows, k) ==
    IF k > Len(rows)
    THEN {}
    ELSE (IF re_match(rows[k].title) THEN {rows[k].href} ELSE {})
             \cup series_rows(rows, k + 1)

get_series_book_ids(book, cache, responses) ==
    IF get_series(book) = None
    THEN [raised |-> "none", returned |-> {}, cache |-> cache,
          calls |-> << >>]
    ELSE LET g == get(cache, SeriesPath(get_series(book)), responses)
         IN  IF g.raised # "none"
             THEN [raised |-> g.raised, returned |-> {}, cache |-> g.cache,
                   calls |-> <<"get">>]
             ELSE [raised |-> "none",
                   returned |-> series_rows(g.soup.rows, 1),
                   cache |-> g.cache, calls |-> <<"get">>]

(***************************************************************************)
(* SpecBook: the two methods called on every Book of a bounded family, for *)
(* every answer of the site to the request they make.                      *)
(***************************************************************************)
GenreList == <<"fantasy", "audiobook", "audible">>

Books ==
    [shelf_audiobook : BOOLEAN,
     genres : SubSeqs(GenreList, MaxGenres),
     editions : {<< >>, <<1>>},
     series : {<< >>, <<1>>}]

\* what an editions listing can show
EditionsPages ==
    {EditionsPage(formats) :
        formats \in {{}, {"Paperback"}, {"Audible"}, {"Paperback", "Audio CD,"},
                      {"Unabridged"}}}

\* the rows a series listing can show, in the order of the listing
SeriesRows ==
    <<[title |-> BookPrefix \o <<"1">>, href |-> "/book/show/1"],
      [title |-> BookPrefix \o <<"1", ".", "5">>, href |-> "/book/show/2"],
      [title |-> BookPrefix \o <<"1", "-", "3">>, href |-> "/book/show/3"],
      [title |-> BookPrefix \o <<"4", " ", "P", "a", "r", "t", " ", "4", " ",
                                 "o", "f", " ", "4">>,
       href |-> "/book/show/4"],
      [title |-> BookPrefix \o <<"1", "0">>, href |-> "/book/show/10"],
      [title |-> BookPrefix \o <<"1", "0", ".", "5">>, href |-> "/book/show/11"],
      [title |-> BookPrefix \o <<"1", "2", "3">>, href |-> "/book/show/123"],
      [title |-> BookPrefix \o <<"2", "\n">>, href |-> "/book/show/5"],
      [title |-> <<"O", "m", "n", "i", "b", "u", "s">>, href |-> "/book/show/6"]>>

SeriesPages == {SeriesPage(rows) : rows \in SubSeqs(SeriesRows, MaxSeriesRows)}

InitBook ==
    /\ phase = "book"
    /\ NoMerge
    /\ NoFilter
    /\ NoRun
    /\ NoRank
    /\ NoDownload
    /\ b_book \in Books
    /\ b_cache \in {<< >>} \cup {EditionsPath(1) :> page : page \in EditionsPages}
    /\ b_result = [done |-> FALSE]

\* book.does_audiobook_exist()
DoesAudiobookExist ==
    /\ phase = "book"
    /\ \E responses \in {AllFail} \cup {<<Response(page)>> : page \in EditionsPages} :
          LET r == does_audiobook_exist(b_book, b_cache, responses)
          IN  /\ b_result' = [done |-> TRUE, raised |-> r.raised,
                              returned |-> r.returned, calls |-> r.calls]
              /\ b_cache' = r.cache
    /\ phase' = "book_audiobook"
    /\ UNCHANGED <<mergeVars, filterVars, runVars, rankVars, downloadVars,
                   b_book>>

\* book.get_series_book_ids()
GetSeriesBookIds ==
    /\ phase = "book"
    /\ \E responses \in {AllFail} \cup {<<Response(page)>> : page \in SeriesPages} :
          LET r == get_series_book_ids(b_book, b_cache, responses)
          IN  /\ b_result' = [done |-> TRUE, raised |-> r.raised,
                              returned |-> r.returned, calls |-> r.calls]
              /\ b_cache' = r.cache
    /\ phase' = "book_series"
    /\ UNCHANGED <<mergeVars, filterVars, runVars, rankVars, downloadVars,
                   b_book>>

NextBook == DoesAudiobookExist \/ GetSeriesBookIds

SpecBook == InitBook /\ [][NextBook]_vars

(***************************************************************************)
(* The remote site. A user's review listing is sorted by rating; a page of *)
(* it shows the next rows of it, as many as the site puts on a page at the *)
(* time of the request. Which reviews there are is fixed per behaviour     *)
(* (site); what a request returns is chosen when the request is made.      *)
(***************************************************************************)
Seed == 0
Readers == 1..NumReaders
Sites == {"scenario", "one star", "labels", "twice"}

Shelf(s, user_id) ==
    CASE s = "scenario" ->
            IF user_id = Seed
            THEN <<Row("bookA", "it was amazing"), Row("bookB", "it was ok")>>
            ELSE IF user_id = 1
            THEN <<Row("bookD", "it was amazing"),
                   Row("bookC", "really liked it")>>
            ELSE <<Row("bookC", "it was amazing")>>
      [] s = "one star" ->
            IF user_id = Seed
            THEN <<Row("bookA", "really liked it"),
                   Row("bookB", "did not like it")>>
            ELSE IF user_id = 1
            THEN <<Row("bookB", "it was amazing"), Row("bookA", "liked it")>>
            ELSE <<Row("bookB", "really liked it"), Row("bookC", NoTitle)>>
      [] s = "labels" ->
            IF user_id = Seed
            THEN <<Row("bookB", "it was amazing")>>
            ELSE IF user_id = 1
            THEN <<Row("bookD", "really liked it"), Row("bookC", "loved it")>>
            ELSE <<Row("bookC", "it was ok"), Row("bookD", NoRatingSpan)>>
      [] s = "twice" ->
            IF user_id = Seed
            THEN <<Row("bookA", "it was amazing"),
                   Row("bookB", "really liked it")>>
            ELSE <<Row("bookC", "it was amazing")>>
      [] s = "rerun" ->
            IF user_id = Seed
            THEN <<Row("bookA", "it was amazing"), Row("bookB", "it was ok")>>
            ELSE <<Row("bookC", "really liked it")>>

\* the rows of a listing that its page shows when a page holds per_page rows
PageRows(shelf, page, per_page) ==
    LET first == (page - 1) * per_page + 1
        last == IF page * per_page < Len(shelf)
                THEN page * per_page
                ELSE Len(shelf)
    IN  SubSeq(shelf, first, last)

IsFault(responses) ==
    \/ ~responses[1].ok
    \/ responses[1].body.private
    \/ responses[1].body.sign_in
    \/ responses[1].body = BrokenBookPage

\* what the site may answer to a request for a page of a review listing
ReviewResponses(user_id, page) ==
    IF get_review_page_path(user_id, page) \in DOMAIN goodreads_cache
    THEN {AllFail}
    ELSE {<<Response(ReviewPage(PageRows(Shelf(site, user_id), page, per_page)))>> :
              per_page \in 0..MaxRows}
         \cup (IF faults < MaxFaults
               THEN {<<Response(PrivatePage)>>, <<Response(SignInPage)>>,
                     AllFail}
               ELSE {})

\* the Review records a book's detail document may embed, in document order:
\* every reader of the site liked the book, and the first reader also left a
\* lukewarm review; the site of the repeated runs has one reader
ApolloReviews ==
    [r \in (IF site = "rerun" THEN {1} ELSE Readers) |->
            [rating |-> 5, creator |-> r]]
        \o <<[rating |-> 3, creator |-> 1]>>

\* what the site may answer to a request for a book's detail document
BookResponses(book_id) ==
    IF BookPath(book_id) \in DOMAIN goodreads_cache
    THEN {AllFail}
    ELSE {<<Response(BookPage(reviews))>> :
              reviews \in SubSeqs(ApolloReviews, MaxReviewers)}
         \cup (IF faults < MaxFaults
               THEN {<<Response(BrokenBookPage)>>, AllFail}
               ELSE {})

\* the responses of a scan that were no regular document
FaultsOfScan(user_id, responses, last_page) ==
    Cardinality({page \in 1..last_page :
        /\ get_review_page_path(user_id, page) \notin DOMAIN goodreads_cache
        /\ IsFault(responses[page])})

(***************************************************************************)
(* RecommendationEngine.recommend, _load_book_scores_pickle,               *)
(* _get_book_scores_of_users_who_read_the_same_books and                   *)
(* _get_book_scores_of_users (recommendation_engine.py, lines 93-146 and   *)
(* 248-316), one action per step of their loops.                           *)
(***************************************************************************)
default_minimum_review_score == 1
default_num_review_pages_to_scrape == 2
default_minimum_rating == 4
liked_total_score == 3

collect_users_reviews_keeps_rows(accumulated, scan) ==
    [accumulated |-> merge_book_scores(accumulated, scan.book_scores),
     raised |-> "none"]

\* try: ... merge_book_scores(their_book_scores) except Exception: ...
\* what _get_book_scores_of_users does with the scan of one user: the
\* accumulator afterwards, and the exception that leaves the loop, if any
collect_users_reviews(accumulated, scan) ==
    IF scan.raised # "none"
    THEN [accumulated |-> accumulated, raised |-> "none"]
    ELSE [accumulated |-> merge_book_scores(accumulated, scan.book_scores),
          raised |-> "none"]

RECURSIVE remove_read(_, _, _)
\* for book_id in own_book_scores: if book_id in accumulated: del ...
remove_read(accumulated, own, k) ==
    IF k > Len(own)
    THEN accumulated
    ELSE remove_read(IF own[k][1] \in keys(accumulated)
                     THEN delitem(accumulated, own[k][1])
                     ELSE accumulated,
                     own, k + 1)

\* the values of pickle_book_scores the runs are started with: the pickle
\* file matters only when the program is started again
PickleOptions == IF site = "rerun" THEN BOOLEAN ELSE {FALSE}

Idle == phase \in {"idle", "done", "aborted", "killed"}

InitRun(s, runs) ==
    /\ phase = "idle"
    /\ NoMerge
    /\ NoFilter
    /\ NoPure
    /\ site = s
    /\ faults = 0
    /\ runs_left = runs
    /\ goodreads_cache = << >>
    /\ pickle_file = << >>
    /\ pickle_book_scores = FALSE
    /\ page_nr = 1
    /\ own_book_scores = << >>
    /\ own_seen = << >>
    /\ accumulated_book_scores = << >>
    /\ own_index = 1
    /\ other_readers_user_ids = << >>
    /\ user_index = 1
    /\ users_book_scores = << >>
    /\ book_scores = << >>
    /\ recommendations = << >>
    /\ raised = "none"
    /\ calls = {}
    /\ log = << >>

Init == \E s \in Sites : InitRun(s, 1)

\* the locals of a fresh process
StartRun(flag) ==
    /\ runs_left' = runs_left - 1
    /\ faults' = 0
    /\ pickle_book_scores' = flag
    /\ page_nr' = 1
    /\ own_book_scores' = << >>
    /\ own_seen' = << >>
    /\ accumulated_book_scores' = << >>
    /\ own_index' = 1
    /\ other_readers_user_ids' = << >>
    /\ user_index' = 1
    /\ users_book_scores' = << >>
    /\ recommendations' = << >>
    /\ raised' = "none"
    /\ calls' = {}
    /\ log' = << >>
    /\ UNCHANGED <<pureVars, site, goodreads_cache, pickle_file, mergeVars, filterVars>>

\* recommend: the scores are computed (pickle_book_scores is false, or the
\* pickle file does not exist)
RecommendCompute ==
    /\ Idle
    /\ runs_left > 0
    /\ \E flag \in PickleOptions :
          /\ flag => pickle_file = << >>
          /\ StartRun(flag)
    /\ book_scores' = << >>
    /\ phase' = "invalidate"

RecommendLoad_recomputes ==
    /\ Idle
    /\ runs_left > 0
    /\ pickle_file # << >>
    /\ StartRun(TRUE)
    /\ book_scores' = << >>
    /\ phase' = "invalidate"

\* recommend: _load_book_scores_pickle finds the pickle file
RecommendLoad ==
    /\ Idle
    /\ runs_left > 0
    /\ pickle_file # << >>
    /\ StartRun(TRUE)
    /\ book_scores' = pickle_file[1]
    /\ phase' = "rank"

\* one iteration of the loop that clears the user's own cached reviews
InvalidatePage ==
    /\ phase = "invalidate"
    /\ LET d == delete_from_cache(goodreads_cache,
                                  get_review_page_path(Seed, page_nr))
       IN  /\ goodreads_cache' = d.cache
           /\ calls' = calls \cup {"delete_from_cache"}
           /\ IF d.raised = "FileNotFoundError"
              THEN \* except FileNotFoundError: break
                   /\ phase' = "own"
                   /\ page_nr' = page_nr
              ELSE /\ page_nr' = page_nr + 1
                   /\ phase' = IF page_nr + 1 > num_review_pages_to_scrape
                               THEN "own"
                               ELSE "invalidate"
    /\ UNCHANGED <<pureVars, mergeVars, filterVars, site, faults, runs_left,
                   pickle_file, pickle_book_scores, own_book_scores, own_seen,
                   accumulated_book_scores, own_index,
                   other_readers_user_ids, user_index, users_book_scores,
                   book_scores, recommendations, raised, log>>

\* own_book_scores = self._get_users_book_scores(own_user_id,
\*     num_review_pages_to_scrape): the second positional parameter is
\* minimum_review_score
ScanOwn ==
    /\ phase = "own"
    /\ \E r1 \in ReviewResponses(Seed, 1), r2 \in ReviewResponses(Seed, 2) :
          LET scan == get_users_book_scores(
                          goodreads_cache, Seed, num_review_pages_to_scrape,
                          default_num_review_pages_to_scrape, <<r1, r2>>)
              used == FaultsOfScan(Seed, <<r1, r2>>, scan.last_page)
          IN  /\ faults + used <= MaxFaults
              /\ faults' = faults + used
              /\ goodreads_cache' = scan.cache
              /\ calls' = calls \cup {"_get_users_book_scores"}
              /\ IF scan.raised # "none"
                 THEN /\ raised' = scan.raised
                      /\ phase' = "aborted"
                      /\ UNCHANGED own_book_scores
                 ELSE /\ raised' = raised
                      /\ phase' = "books"
                      /\ own_book_scores' = scan.book_scores
              /\ own_seen' = scan.seen
    /\ own_index' = 1
    /\ accumulated_book_scores' = EmptyBookScores
    /\ UNCHANGED <<pureVars, mergeVars, filterVars, site, runs_left, pickle_file,
                   pickle_book_scores, page_nr, other_readers_user_ids,
                   user_index, users_book_scores, book_scores,
                   recommendations, log>>

\* if own_book_scores[our_book_id].total_score < 3: continue
SkipOwnBook ==
    /\ phase = "books"
    /\ own_index <= Len(own_book_scores)
    /\ own_book_scores[own_index][2].total_score < liked_total_score
    /\ own_index' = own_index + 1
    /\ UNCHANGED <<pureVars, phase, mergeVars, filterVars, site, faults, runs_left,
                   goodreads_cache, pickle_file, pickle_book_scores, page_nr,
                   own_book_scores, own_seen, accumulated_book_scores,
                   other_readers_user_ids, user_index, users_book_scores,
                   book_scores, recommendations, raised, calls, log>>

\* other_readers_user_ids = self._get_user_ids_who_liked_book(our_book_id)
ExpandOwnBook ==
    /\ phase = "books"
    /\ own_index <= Len(own_book_scores)
    /\ own_book_scores[own_index][2].total_score >= liked_total_score
    /\ \E r \in BookResponses(own_book_scores[own_index][1]) :
          LET b == Book(goodreads_cache, own_book_scores[own_index][1], r)
              used == IF BookPath(own_book_scores[own_index][1])
                             \notin DOMAIN goodreads_cache /\ IsFault(r)
                      THEN 1 ELSE 0
          IN  /\ faults' = faults + used
              /\ goodreads_cache' = b.cache
              /\ IF b.raised # "none"
                 THEN /\ raised' = b.raised
                      /\ phase' = "aborted"
                      /\ UNCHANGED other_readers_user_ids
                 ELSE /\ raised' = raised
                      /\ phase' = "users"
                      /\ other_readers_user_ids' =
                             get_user_ids_who_liked_book(b.soup)
    /\ calls' = calls \cup {"_get_user_ids_who_liked_book"}
    /\ user_index' = 1
    /\ users_book_scores' = EmptyBookScores
    /\ UNCHANGED <<pureVars, mergeVars, filterVars, site, runs_left, pickle_file,
                   pickle_book_scores, page_nr, own_book_scores, own_seen,
                   accumulated_book_scores, own_index, book_scores,
                   recommendations, log>>

\* one iteration of the loop of _get_book_scores_of_users
ScanUser ==
    /\ phase = "users"
    /\ user_index <= Len(other_readers_user_ids)
    /\ LET user_id == other_readers_user_ids[user_index]
       IN  \E r1 \in ReviewResponses(user_id, 1),
              r2 \in ReviewResponses(user_id, 2) :
              LET scan == get_users_book_scores(
                              goodreads_cache, user_id,
                              default_minimum_review_score,
                              default_num_review_pages_to_scrape, <<r1, r2>>)
                  used == FaultsOfScan(user_id, <<r1, r2>>, scan.last_page)
                  c == collect_users_reviews(users_book_scores, scan)
              IN  /\ faults + used <= MaxFaults
                  /\ faults' = faults + used
                  /\ goodreads_cache' = scan.cache
                  /\ users_book_scores' = c.accumulated
                  /\ raised' = c.raised
                  /\ phase' = IF c.raised # "none" THEN "aborted" ELSE "users"
                  /\ log' = Append(log,
                                [our_book_id |-> own_book_scores[own_index][1],
                                 user_id |-> user_id,
                                 raised |-> scan.raised,
                                 seen |-> scan.seen,
                                 book_scores |-> scan.book_scores])
    /\ calls' = calls \cup {"_get_users_book_scores"}
    /\ user_index' = user_index + 1
    /\ UNCHANGED <<pureVars, mergeVars, filterVars, site, runs_left, pickle_file,
                   pickle_book_scores, page_nr, own_book_scores, own_seen,
                   accumulated_book_scores, own_index,
                   other_readers_user_ids, book_scores, recommendations>>

\* _get_book_scores_of_users returns; its result is merged
MergeUsers ==
    /\ phase = "users"
    /\ user_index > Len(other_readers_user_ids)
    /\ accumulated_book_scores' =
           merge_book_scores(accumulated_book_scores, users_book_scores)
    /\ own_index' = own_index + 1
    /\ phase' = "books"
    /\ UNCHANGED <<pureVars, mergeVars, filterVars, site, faults, runs_left,
                   goodreads_cache, pickle_file, pickle_book_scores, page_nr,
                   own_book_scores, own_seen, other_readers_user_ids, user_index,
                   users_book_scores, book_scores, recommendations, raised,
                   calls, log>>

\* the books the user already read are removed and the result is returned
\* (and written to the pickle file by _load_book_scores_pickle)
RemoveRead ==
    /\ phase = "books"
    /\ own_index > Len(own_book_scores)
    /\ accumulated_book_scores' =
           remove_read(accumulated_book_scores, own_book_scores, 1)
    /\ book_scores' = accumulated_book_scores'
    /\ pickle_file' = IF pickle_book_scores
                      THEN <<accumulated_book_scores'>>
                      ELSE pickle_file
    /\ phase' = "rank"
    /\ UNCHANGED <<pureVars, mergeVars, filterVars, site, faults, runs_left,
                   goodreads_cache, pickle_book_scores, page_nr,
                   own_book_scores, own_seen, own_index, other_readers_user_ids,
                   user_index, users_book_scores, recommendations, raised,
                   calls, log>>

\* recommendations = book_scores.get_recommendations()
Rank ==
    /\ phase = "rank"
    /\ IF zero_division(book_scores)
       THEN /\ raised' = "ZeroDivisionError"
            /\ phase' = "aborted"
            /\ UNCHANGED <<recommendations, book_scores>>
       ELSE LET call == get_recommendations_call(book_scores,
                                                 default_minimum_rating)
            IN  /\ recommendations' = call.returned
                /\ book_scores' = call.self
                /\ raised' = raised
                /\ phase' = "done"
    /\ UNCHANGED <<pureVars, mergeVars, filterVars, site, faults, runs_left,
                   goodreads_cache, pickle_file, pickle_book_scores, page_nr,
                   own_book_scores, own_seen, accumulated_book_scores, own_index,
                   other_readers_user_ids, user_index, users_book_scores,
                   calls, log>>

Next ==
    \/ RecommendCompute
    \/ InvalidatePage
    \/ ScanOwn
    \/ SkipOwnBook
    \/ ExpandOwnBook
    \/ ScanUser
    \/ MergeUsers
    \/ RemoveRead
    \/ Rank

Spec == Init /\ [][Next]_vars

(***************************************************************************)
(* SpecRerun: the program is started several times on the same cache       *)
(* directory and pickle file; a run may be killed between two steps.       *)
(***************************************************************************)
InitRerun == InitRun("rerun", MaxRuns)

\* the process is killed (KeyboardInterrupt is no Exception); the files it
\* wrote stay
Interrupt ==
    /\ ~Idle
    /\ phase' = "killed"
    /\ page_nr' = 1
    /\ own_book_scores' = << >>
    /\ own_seen' = << >>
    /\ accumulated_book_scores' = << >>
    /\ own_index' = 1
    /\ other_readers_user_ids' = << >>
    /\ user_index' = 1
    /\ users_book_scores' = << >>
    /\ book_scores' = << >>
    /\ recommendations' = << >>
    /\ calls' = {}
    /\ log' = << >>
    /\ faults' = 0
    /\ raised' = "none"
    /\ pickle_book_scores' = FALSE
    /\ UNCHANGED <<pureVars, mergeVars, filterVars, site, runs_left, goodreads_cache,
                   pickle_file>>

NextRerun == Next \/ RecommendLoad \/ Interrupt

SpecRerun == InitRerun /\ [][NextRerun]_vars

(***************************************************************************)
(* Reference definitions the claims are stated with. They read the         *)
(* documents the scans saw, not the BookScores the program built.          *)
(***************************************************************************)
RECURSIVE RowsOf(_)
\* the review rows of a sequence of listing pages, in order
RowsOf(seen) ==
    IF seen = << >> THEN << >> ELSE Head(seen).reviews \o RowsOf(Tail(seen))

Recognized(row) == row.title \in DOMAIN rating_map

\* the books a user rated with a recognized rating of at least minimum on
\* the pages read; a private profile shows none
RatedWith(seen, minimum) ==
    IF \E k \in 1..Len(seen) : seen[k].private
    THEN {}
    ELSE {RowsOf(seen)[k].book_id : k \in
             {n \in 1..Len(RowsOf(seen)) :
                 /\ Recognized(RowsOf(seen)[n])
                 /\ rating_map[RowsOf(seen)[n].title] >= minimum}}

\* the rating the pages show for a book the user rated: its last row
RatingOn(seen, book_id) ==
    LET rows == RowsOf(seen)
        last == CHOOSE n \in 1..Len(rows) :
                    /\ rows[n].book_id = book_id /\ Recognized(rows[n])
                    /\ \A m \in (n + 1)..Len(rows) :
                           ~(rows[m].book_id = book_id /\ Recognized(rows[m]))
    IN  rating_map[rows[last].title]

AllBooks == {"bookA", "bookB", "bookC", "bookD"}

\* a run of the program has computed its candidates (not loaded them)
Computed == phase \in {"rank", "done"} /\ calls # {}

(***************************************************************************)
(* C1. After aggregation no book that the seed user rated on their first   *)
(* two review pages with a recognized rating 1..5 is a key of the          *)
(* candidate BookScores.                                                   *)
(***************************************************************************)
C1_OwnBooksExcluded ==
    Computed => keys(book_scores) \cap RatedWith(own_seen, 1) = {}

(***************************************************************************)
(* C2. The rating-label mapping maps the five labels to 1..5, and a review *)
(* row with any other label is excluded alone: the scan raises no error    *)
(* and scores the user's other rows as if the row were absent.             *)
(***************************************************************************)
RegularListing(page) == ~page.private /\ ~page.sign_in

C2_UnrecognizedLabelFailsClosed ==
    /\ {rating_map[title] : title \in DOMAIN rating_map} = 1..5
    /\ \A k \in 1..Len(log) :
          (/\ Len(log[k].seen) = default_num_review_pages_to_scrape
           /\ \A n \in 1..Len(log[k].seen) : RegularListing(log[k].seen[n]))
          => /\ log[k].raised = "none"
             /\ keys(log[k].book_scores) = RatedWith(log[k].seen, 1)
             /\ \A b \in keys(log[k].book_scores) :
                   getitem(log[k].book_scores, b)
                       = BookScore(RatingOn(log[k].seen, b), 1)

(***************************************************************************)
(* C3. Whenever a review page fetched during aggregation indicates an      *)
(* invalid session (and is not marked private), its cache entry is removed *)
(* and the run is aborted by the error: no further co-reader is scanned    *)
(* and no candidate result is produced.                                    *)
(***************************************************************************)
SessionExpired(seen) ==
    \E n \in 1..Len(seen) : seen[n].sign_in /\ ~seen[n].private

C3_InvalidSessionIsFatal ==
    /\ SessionExpired(own_seen) =>
          phase = "aborted" /\ raised = "Not logged in"
    /\ \A k \in 1..Len(log) :
          SessionExpired(log[k].seen) =>
              /\ phase = "aborted"
              /\ raised = "Not logged in"
              /\ k = Len(log)
              /\ get_review_page_path(log[k].user_id, Len(log[k].seen))
                     \notin DOMAIN goodreads_cache

(***************************************************************************)
(* C4. For every ranked candidate list, every predicate and every          *)
(* max_books >= 0, _filter_book_scores returns at most max_books entries.  *)
(***************************************************************************)
C4_AtMostMaxBooks ==
    phase = "filter_returned" =>
        Len(filtered_book_scores) <= f_max_books

(***************************************************************************)
(* C5. For max_books >= 1 the result of _filter_book_scores is exactly the *)
(* first max_books candidates, in ranked order and with their input        *)
(* scores, for which constructing the Book and evaluating the filter both  *)
(* succeed and the filter returns true; a candidate that raises is skipped *)
(* without counting and without ending the iteration.                      *)
(***************************************************************************)
Accepted ==
    SelectSeq(f_book_scores, LAMBDA item : f_outcome[item[1]] = "true")

FirstAccepted ==
    SubSeq(Accepted, 1,
           IF Len(Accepted) < f_max_books THEN Len(Accepted) ELSE f_max_books)

C5_FirstAcceptedInOrder ==
    (phase = "filter_returned" /\ f_max_books >= 1) =>
        filtered_book_scores = FirstAccepted

\* the first candidate raises, the next two are accepted with different
\* scores, and the second of them reaches the cap
C5_Witness ==
    /\ phase = "filter_returned"
    /\ f_max_books = 2
    /\ Len(f_book_scores) = 3
    /\ f_outcome[f_book_scores[1][1]] \in {"book_raises", "filter_raises"}
    /\ f_outcome[f_book_scores[2][1]] = "true"
    /\ f_outcome[f_book_scores[3][1]] = "true"
    /\ Len(filtered_book_scores) = 2
    /\ filtered_book_scores[1][2] # filtered_book_scores[2][2]

(***************************************************************************)
(* C7. BookScore.merge and BookScores.merge_book_scores, compared as       *)
(* mappings book id -> (total_score, number_of_reviews), are commutative   *)
(* and associative, and merging with the identity (the empty score (0,0),  *)
(* the empty mapping) leaves the other operand unchanged.                  *)
(***************************************************************************)
C7_MergeLaws ==
    m_out.done =>
        /\ AsMapping(m_out.ab) = AsMapping(m_out.ba)
        /\ AsMapping(m_out.ab_c) = AsMapping(m_out.a_bc)
        /\ AsMapping(m_out.a_e) = AsMapping(m_a)
        /\ AsMapping(m_out.e_a) = AsMapping(m_a)
        /\ m_out.xy = m_out.yx
        /\ m_out.xy_z = m_out.x_yz
        /\ m_out.x_e = m_x
        /\ m_out.e_x = m_x

\* the operands share a key, each has a key of its own, and the sums differ
\* from both operands
C7_Witness ==
    /\ m_out.done
    /\ keys(m_a) \cap keys(m_b) # {}
    /\ keys(m_a) # keys(m_b)
    /\ m_c # << >>
    /\ \E b \in keys(m_a) \cap keys(m_b) :
          /\ getitem(m_a, b) # getitem(m_b, b)
          /\ getitem(m_out.ab, b).total_score
                 = getitem(m_a, b).total_score + getitem(m_b, b).total_score

(***************************************************************************)
(* C6. The candidate BookScores equals the reference aggregate: for every  *)
(* book b the seed did not rate, total_score(b) is the sum, over every     *)
(* pair (s, r) of a seed book s rated >= 3 and a reviewer r returned for s *)
(* whose scan succeeded, of r's rating of b, and number_of_reviews(b) is   *)
(* the number of such pairs in which r rated b (a co-reader returned for k *)
(* seed books counts k times). In the scenario of the specification this   *)
(* gives bookC = (9, 2) and bookD = (5, 1), and bookB is not expanded.     *)
(***************************************************************************)
LikedOwn ==
    {b \in RatedWith(own_seen, 1) : RatingOn(own_seen, b) >= 3}

EntriesFor(our_book_id) ==
    SelectSeq(log, LAMBDA e : e.our_book_id = our_book_id)

RatingBy(e, b) ==
    IF e.raised = "none" /\ b \in RatedWith(e.seen, 1)
    THEN RatingOn(e.seen, b)
    ELSE 0

RECURSIVE RefTotal(_, _)
RefTotal(k, b) ==
    IF k > Len(log) THEN 0 ELSE RatingBy(log[k], b) + RefTotal(k + 1, b)

RECURSIVE RefCount(_, _)
RefCount(k, b) ==
    IF k > Len(log)
    THEN 0
    ELSE (IF RatingBy(log[k], b) > 0 THEN 1 ELSE 0) + RefCount(k + 1, b)

ScenarioRead ==
    /\ site = "scenario"
    /\ AsMapping(own_book_scores)
           = ("bookA" :> BookScore(5, 1)) @@ ("bookB" :> BookScore(2, 1))
    /\ Len(log) = 2
    /\ {log[1].user_id, log[2].user_id} = {1, 2}
    /\ \A k \in 1..2 :
          /\ log[k].raised = "none"
          /\ log[k].user_id = 1 =>
                AsMapping(log[k].book_scores)
                    = ("bookC" :> BookScore(4, 1)) @@ ("bookD" :> BookScore(5, 1))
          /\ log[k].user_id = 2 =>
                AsMapping(log[k].book_scores) = ("bookC" :> BookScore(5, 1))

C6_ReferenceAggregate ==
    Computed =>
        /\ \A s \in AllBooks :
              IF s \in LikedOwn
              THEN [k \in 1..Len(EntriesFor(s)) |-> EntriesFor(s)[k].user_id]
                       = get_user_ids_who_liked_book(
                             goodreads_cache[BookPath(s)])
              ELSE /\ EntriesFor(s) = << >>
                   /\ BookPath(s) \notin DOMAIN goodreads_cache
        /\ \A b \in AllBooks \ RatedWith(own_seen, 1) :
              IF RefCount(1, b) = 0
              THEN b \notin keys(book_scores)
              ELSE /\ b \in keys(book_scores)
                   /\ getitem(book_scores, b)
                          = BookScore(RefTotal(1, b), RefCount(1, b))
        /\ ScenarioRead =>
              AsMapping(book_scores)
                  = ("bookC" :> BookScore(9, 2)) @@ ("bookD" :> BookScore(5, 1))

C6_Witness == phase = "done" /\ Computed /\ ScenarioRead

\* a co-reader returned for both liked books of the seed counts twice
C6_TwiceWitness ==
    /\ phase = "done" /\ Computed
    /\ Len(log) = 2
    /\ log[1].user_id = log[2].user_id
    /\ log[1].our_book_id # log[2].our_book_id
    /\ \E b \in keys(book_scores) :
          getitem(book_scores, b).number_of_reviews = 2

(***************************************************************************)
(* C10. When the scan of one co-reader fails, the failure is caught and    *)
(* that co-reader contributes nothing to the accumulator, not even rows    *)
(* parsed from an earlier page; the contributions of the other co-readers  *)
(* are unchanged and every later co-reader of the batch is still scanned.  *)
(***************************************************************************)
Batch == SubSeq(log, Len(log) - user_index + 2, Len(log))

Contribution(e, b) ==
    IF e.raised = "none" /\ b \in keys(e.book_scores)
    THEN getitem(e.book_scores, b)
    ELSE BookScore(0, 0)

RECURSIVE BatchSum(_, _, _)
BatchSum(entries, k, b) ==
    IF k > Len(entries)
    THEN BookScore(0, 0)
    ELSE BookScore(
             Contribution(entries[k], b).total_score
                 + BatchSum(entries, k + 1, b).total_score,
             Contribution(entries[k], b).number_of_reviews
                 + BatchSum(entries, k + 1, b).number_of_reviews)

C10_BatchState ==
    phase = "users" =>
        /\ Len(log) >= user_index - 1
        /\ \A k \in 1..(user_index - 1) :
              Batch[k].user_id = other_readers_user_ids[k]
        /\ \A b \in AllBooks :
              IF BatchSum(Batch, 1, b).number_of_reviews = 0
              THEN b \notin keys(users_book_scores)
              ELSE /\ b \in keys(users_book_scores)
                   /\ getitem(users_book_scores, b) = BatchSum(Batch, 1, b)

C10_ScanStep ==
    (phase = "users" /\ log' # log) =>
        /\ phase' = "users"
        /\ raised' = "none"
        /\ user_index' = user_index + 1
        /\ log'[Len(log')].raised # "none" =>
              /\ users_book_scores' = users_book_scores
              /\ accumulated_book_scores' = accumulated_book_scores

C10_FailedCoReaderSkipped == [](C10_BatchState) /\ [][C10_ScanStep]_vars

\* a co-reader whose second page fails after rows of the first page were
\* parsed, followed by a co-reader whose scan succeeds and contributes
C10_Witness ==
    /\ phase = "users"
    /\ user_index = 3
    /\ Batch[1].raised # "none"
    /\ Batch[1].book_scores # << >>
    /\ Batch[2].raised = "none"
    /\ Batch[2].book_scores # << >>
    /\ users_book_scores = Batch[2].book_scores

(***************************************************************************)
(* C8. With pickle_book_scores set, if the pickle file of the seed user    *)
(* exists, recommend performs none of the aggregation steps: the seed's    *)
(* cached review pages are not invalidated, no review scan and no          *)
(* reviewer lookup is made, and the BookScores that is ranked is the       *)
(* stored one; the pickle file is left unchanged, on this and on every     *)
(* later run.                                                              *)
(***************************************************************************)
C8_LoadStep ==
    (Idle /\ ~Idle' /\ pickle_book_scores' /\ pickle_file # << >>) =>
        /\ phase' = "rank"
        /\ book_scores' = pickle_file[1]
        /\ goodreads_cache' = goodreads_cache
        /\ calls' = {}

C8_RankStep ==
    (phase = "rank" /\ calls = {}) =>
        /\ goodreads_cache' = goodreads_cache
        /\ phase' = "killed" \/
              /\ phase' = "done"
              /\ calls' = {}
              /\ book_scores' = book_scores
              /\ recommendations'
                     = get_recommendations(pickle_file[1],
                                           default_minimum_rating)

C8_SnapshotKept == pickle_file # << >> => pickle_file' = pickle_file

C8_SnapshotSkipsAggregation ==
    [][C8_LoadStep /\ C8_RankStep /\ C8_SnapshotKept]_vars

\* a run that loaded a non-empty snapshot written by an earlier run, with
\* the seed's review pages still cached
C8_Witness ==
    /\ phase = "done"
    /\ pickle_book_scores
    /\ calls = {}
    /\ pickle_file # << >>
    /\ book_scores = pickle_file[1]
    /\ recommendations # << >>
    /\ get_review_page_path(Seed, 1) \in DOMAIN goodreads_cache
    /\ get_review_page_path(Seed, 2) \in DOMAIN goodreads_cache

(***************************************************************************)
(* C9. Step 1 of the aggregation invalidates the seed user's own cached    *)
(* review pages: whatever the cache held, after the invalidation loop      *)
(* neither of the seed's review pages 1..2 is in the cache.                *)
(***************************************************************************)
C9_OwnPagesInvalidated ==
    phase = "own" =>
        \A p \in 1..num_review_pages_to_scrape :
            get_review_page_path(Seed, p) \notin DOMAIN goodreads_cache

(***************************************************************************)
(* C11. If a scanned review page of a co-reader marks the profile private, *)
(* the scan of that co-reader returns an empty score set at once (rows of  *)
(* earlier pages are discarded, later pages are not fetched), no exception *)
(* is raised, and the accumulator is what it would be without that         *)
(* co-reader.                                                              *)
(***************************************************************************)
MarkedPrivate(seen) == \E n \in 1..Len(seen) : seen[n].private

C11_LogState ==
    \A k \in 1..Len(log) :
        MarkedPrivate(log[k].seen) =>
            /\ log[k].raised = "none"
            /\ log[k].book_scores = EmptyBookScores
            /\ log[k].seen[Len(log[k].seen)].private

C11_ScanStep ==
    (phase = "users" /\ log' # log /\ MarkedPrivate(log'[Len(log')].seen)) =>
        /\ phase' = "users"
        /\ raised' = "none"
        /\ users_book_scores' = users_book_scores
        /\ accumulated_book_scores' = accumulated_book_scores
        /\ \A p \in (Len(log'[Len(log')].seen) + 1)
                        ..default_num_review_pages_to_scrape :
              LET path == get_review_page_path(log'[Len(log')].user_id, p)
              IN  (path \in DOMAIN goodreads_cache')
                      <=> (path \in DOMAIN goodreads_cache)

C11_PrivateProfileIsEmpty == [](C11_LogState) /\ [][C11_ScanStep]_vars

\* a co-reader who contributed, followed by a co-reader whose second page is
\* private after the first page showed a row
C11_Witness ==
    /\ phase = "users"
    /\ user_index = 3
    /\ Batch[1].raised = "none"
    /\ Batch[1].book_scores # << >>
    /\ Len(Batch[2].seen) = 2
    /\ Batch[2].seen[1].reviews # << >>
    /\ Batch[2].seen[2].private
    /\ Batch[2].book_scores = << >>
    /\ users_book_scores = Batch[1].book_scores

(***************************************************************************)
(* C12. Malformed or missing metadata of a single book is not fatal to the *)
(* run: when the detail document of one of the seed user's liked books has *)
(* no parsable metadata payload, the aggregation does not abort.           *)
(***************************************************************************)
MalformedBooks ==
    {b \in AllBooks :
        /\ BookPath(b) \in DOMAIN goodreads_cache
        /\ ~goodreads_cache[BookPath(b)].next_data}

C12_MalformedBookNotFatal ==
    MalformedBooks # {} => (phase # "aborted" /\ raised = "none")

(***************************************************************************)
(* C13. For every accumulator produced by merging co-reader batches and    *)
(* every minimum rating, each entry get_recommendations returns has        *)
(* number_of_reviews >= 1 and an average of at least the minimum, and      *)
(* every entry of the accumulator with both properties is returned.        *)
(***************************************************************************)
Ranked == phase \in {"rank_once", "rank_twice"}

Items(scores) == {scores[k] : k \in 1..Len(scores)}

\* the average total_score / number_of_reviews reaches the minimum: for an
\* integer minimum, exactly when the integer part of the quotient does
ReachesMinimum(book_score, minimum) ==
    /\ book_score.number_of_reviews >= 1
    /\ book_score.total_score \div book_score.number_of_reviews >= minimum

C13_ExactlyTheRatedWell ==
    Ranked =>
        /\ Items(r_first)
               = {item \in Items(r_acc) :
                     ReachesMinimum(item[2], r_minimum_rating)}
        /\ Cardinality(Items(r_first)) = Len(r_first)

\* one entry is returned with an average equal to the minimum, one with a
\* fractional average below it is left out
C13_Witness ==
    /\ Ranked
    /\ \E item \in Items(r_first) :
          item[2].total_score
              = r_minimum_rating * item[2].number_of_reviews
    /\ \E item \in Items(r_acc) \ Items(r_first) :
          /\ item[2].number_of_reviews = 2
          /\ item[2].total_score = 2 * r_minimum_rating - 1

(***************************************************************************)
(* C14. The sequence get_recommendations returns is ordered by             *)
(* number_of_reviews descending, entries with equal number_of_reviews keep *)
(* the relative order they have in the accumulator, the call does not      *)
(* modify the accumulator, and a second call on the unchanged accumulator  *)
(* returns the identical sequence.                                         *)
(***************************************************************************)
C14_Ordered ==
    Ranked =>
        /\ \A a, b \in 1..Len(r_first) :
              a < b =>
                  /\ r_first[a][2].number_of_reviews
                         >= r_first[b][2].number_of_reviews
                  /\ r_first[a][2].number_of_reviews
                         = r_first[b][2].number_of_reviews
                     => IndexOf(r_acc, r_first[a][1])
                            < IndexOf(r_acc, r_first[b][1])
        /\ phase = "rank_twice" => r_again = r_first

C14_CallStep ==
    (phase \in {"rank_fold", "rank_once"} /\ phase' \in {"rank_once", "rank_twice"})
        => r_acc' = r_acc

C14_StableRanking == [](C14_Ordered) /\ [][C14_CallStep]_vars

\* three entries are returned twice: the second one of the accumulator has
\* the most reviews and comes first, the other two tie and keep an order
\* that is not the order of their ids
C14_Witness ==
    /\ phase = "rank_twice"
    /\ Len(r_first) = 3
    /\ Len(r_acc) = 3
    /\ r_first[1] = r_acc[2]
    /\ r_first[1][2].number_of_reviews = 2
    /\ r_first[2] = r_acc[1]
    /\ r_first[3] = r_acc[3]
    /\ r_first[2][1] > r_first[3][1]
    /\ r_again = r_first

(***************************************************************************)
(* C20. Merging the same co-reader batches into the accumulator in any two *)
(* orders makes get_recommendations return the same ranked sequence of     *)
(* book ids. (Original statement.)                                         *)
(***************************************************************************)
BookIds(scores) == [k \in 1..Len(scores) |-> scores[k][1]]

C20_SameRankedSequence ==
    Ranked => BookIds(r_first) = BookIds(r_other)

(***************************************************************************)
(* C20, amended. Merging the same co-reader batches in any two orders      *)
(* gives the same score for every book, and get_recommendations returns    *)
(* the same set of entries for both, each ordered by number_of_reviews     *)
(* descending with the same sequence of review counts; only the order      *)
(* among entries with equal number_of_reviews may differ.                  *)
(***************************************************************************)
C20_SameEntriesAnyOrder ==
    /\ AsMapping(r_acc) = AsMapping(r_acc_other) \/ r_pos < Len(r_batches)
    /\ Ranked =>
          /\ Items(r_first) = Items(r_other)
          /\ Len(r_first) = Len(r_other)
          /\ \A k \in 1..Len(r_first) :
                r_first[k][2].number_of_reviews
                    = r_other[k][2].number_of_reviews

\* two batches merged in both orders: a book both batches rate differently
\* has the same sum, and two books with one review each are ranked in
\* different orders
C20_Witness ==
    /\ Ranked
    /\ r_order = <<2, 1>>
    /\ \E b \in keys(r_batches[1]) \cap keys(r_batches[2]) :
          getitem(r_batches[1], b) # getitem(r_batches[2], b)
    /\ BookIds(r_first) # BookIds(r_other)
    /\ Len(r_first) = 3

(***************************************************************************)
(* C19. In every state of the aggregation every entry of a BookScores (the *)
(* result of each scan of one user, the running accumulators after each    *)
(* merge, the final candidates) has number_of_reviews >= 1 and             *)
(* number_of_reviews <= total_score <= 5 * number_of_reviews, so           *)
(* get_recommendations never divides by zero; every entry of the result of *)
(* a single user's scan has number_of_reviews = 1, also when a book id     *)
(* occurs on several rows or pages of the scan.                            *)
(***************************************************************************)
WellFormed(scores) ==
    \A k \in 1..Len(scores) :
        /\ scores[k][2].number_of_reviews >= 1
        /\ scores[k][2].number_of_reviews <= scores[k][2].total_score
        /\ scores[k][2].total_score <= 5 * scores[k][2].number_of_reviews

SingleReviews(scores) ==
    \A k \in 1..Len(scores) : scores[k][2].number_of_reviews = 1

C19_ScoresWellFormed ==
    /\ WellFormed(own_book_scores) /\ SingleReviews(own_book_scores)
    /\ \A k \in 1..Len(log) :
          WellFormed(log[k].book_scores) /\ SingleReviews(log[k].book_scores)
    /\ WellFormed(users_book_scores)
    /\ WellFormed(accumulated_book_scores)
    /\ WellFormed(book_scores)
    /\ WellFormed(recommendations)
    /\ raised # "ZeroDivisionError"

\* a finished run in which a co-reader's scan met the same book on both
\* pages, and in which a candidate sums the reviews of two co-readers
C19_Witness ==
    /\ phase = "done"
    /\ \E k \in 1..Len(log) :
          /\ log[k].raised = "none"
          /\ Len(log[k].seen) = 2
          /\ \E a \in 1..Len(log[k].seen[1].reviews),
                b \in 1..Len(log[k].seen[2].reviews) :
                /\ log[k].seen[1].reviews[a].book_id
                       = log[k].seen[2].reviews[b].book_id
                /\ log[k].seen[1].reviews[a].book_id
                       \in keys(log[k].book_scores)
    /\ \E b \in keys(book_scores) :
          getitem(book_scores, b).number_of_reviews = 2

(***************************************************************************)
(* C15. DownloadService.get on an uncached path makes at most 3 remote     *)
(* attempts, attempt k with a timeout proportional to k: it returns at the *)
(* first successful attempt, after storing the body under the path, and if *)
(* all 3 attempts fail it raises, with the cache left unchanged.           *)
(***************************************************************************)
C15_GetStep ==
    (phase = "get" /\ phase' = "get_returned" /\ d_path \notin DOMAIN d_cache) =>
        LET timeouts == d_result'.timeouts
            InTime(k) == /\ d_served[k].status = "ok"
                         /\ d_served[k].latency < k * timeouts[1]
            Successful == {k \in 1..3 : InTime(k)}
        IN  /\ d_result'.attempts \in 1..3
            /\ Len(timeouts) = d_result'.attempts
            /\ timeouts[1] > 0
            /\ \A k \in 1..Len(timeouts) : timeouts[k] = k * timeouts[1]
            /\ IF Successful # {}
               THEN LET first ==
                            CHOOSE k \in Successful :
                                \A n \in Successful : k <= n
                    IN  /\ d_result'.attempts = first
                        /\ d_result'.raised = "none"
                        /\ d_result'.soup = d_served[first].body
                        /\ DOMAIN d_cache' = DOMAIN d_cache \cup {d_path}
                        /\ d_cache'[d_path] = d_served[first].body
                        /\ \A q \in DOMAIN d_cache : d_cache'[q] = d_cache[q]
               ELSE /\ d_result'.attempts = 3
                    /\ d_result'.raised # "none"
                    /\ d_cache' = d_cache

LastDelete(j, path) ==
    LET deletes == {n \in 1..(j - 1) :
                       /\ d_history[n].op = "delete_from_cache"
                       /\ d_history[n].path = path
                       /\ d_history[n].raised = "none"}
    IN  IF deletes = {}
        THEN 0
        ELSE CHOOSE n \in deletes : \A m \in deletes : m <= n

\* the successful gets of the path between that delete and call j
FetchesBefore(j, path) ==
    {n \in (LastDelete(j, path) + 1)..(j - 1) :
        /\ d_history[n].op = "get"
        /\ d_history[n].path = path
        /\ d_history[n].raised = "none"}

C16_FetchedOncePerLifetime ==
    \A j \in 1..Len(d_history) :
        d_history[j].op = "get" =>
            LET fetches == FetchesBefore(j, d_history[j].path)
            IN  IF fetches # {}
                THEN LET first == CHOOSE n \in fetches :
                                      \A m \in fetches : n <= m
                     IN  /\ d_history[j].attempts = 0
                         /\ d_history[j].raised = "none"
                         /\ d_history[j].soup = d_history[first].soup
                         /\ d_history[first].attempts >= 1
                ELSE d_history[j].attempts >= 1

\* a path is fetched, read again from the cache, deleted, and fetched again
\* with another content
C16_Witness ==
    /\ Len(d_history) = 4
    /\ \A n \in 1..4 : d_history[n].path = BookPath("bookA")
    /\ d_history[1].op = "get" /\ d_history[1].attempts = 1
    /\ d_history[2].op = "get" /\ d_history[2].attempts = 0
    /\ d_history[2].soup = d_history[1].soup
    /\ d_history[3].op = "delete_from_cache" /\ d_history[3].raised = "none"
    /\ d_history[4].op = "get" /\ d_history[4].attempts = 1
    /\ d_history[4].soup # d_history[1].soup

(***************************************************************************)
(* does_audiobook_exist under SpecBook.                                    *)
(***************************************************************************)
AudioGenre == \E k \in 1..Len(b_book.genres) : b_book.genres[k] \in {"audible", "audiobook"}

AudiobookReturned == phase = "book_audiobook" /\ b_result.raised = "none"

\* a positive stage ends the call: the marker before the genres are read,
\* an audio genre before the editions listing is requested
FirstPositiveStageReturns ==
    AudiobookReturned =>
        /\ b_book.shelf_audiobook => b_result.returned /\ b_result.calls = << >>
        /\ ~b_book.shelf_audiobook /\ AudioGenre =>
               b_result.returned /\ b_result.calls = <<"get_genres">>
        /\ b_result.returned /\ ~b_book.shelf_audiobook /\ ~AudioGenre =>
               /\ b_result.calls = <<"get_genres", "_get_editions_soup">>
               /\ b_cache[EditionsPath(b_book.editions[1])].formats
                      \cap audiobook_markers # {}

\* false after the marker and the genres were negative and the editions
\* listing was obtained and holds none of the markers
FalseAfterEditionsListing ==
    /\ ~b_book.shelf_audiobook
    /\ ~AudioGenre
    /\ b_book.editions # << >>
    /\ b_result.calls = <<"get_genres", "_get_editions_soup">>
    /\ EditionsPath(b_book.editions[1]) \in DOMAIN b_cache
    /\ b_cache[EditionsPath(b_book.editions[1])].formats \cap audiobook_markers = {}

\* false after the marker and the genres were negative and the payload has
\* no entry with an editions link: nothing is requested
FalseWithoutEditionsId ==
    /\ ~b_book.shelf_audiobook
    /\ ~AudioGenre
    /\ b_book.editions = << >>
    /\ b_result.calls = <<"get_genres", "log">>

\* C17: does_audiobook_exist evaluates the marker, then the genres, then the
\* editions listing; it returns true at the first positive stage without
\* running a later one, and it returns false only after all three stages,
\* the fetch and marker match of the editions listing included, were
\* negative.
C17_FalseOnlyAfterEditionsFetch ==
    /\ FirstPositiveStageReturns
    /\ AudiobookReturned /\ ~b_result.returned => FalseAfterEditionsListing

\* C17, amended: as above, except that false is also returned, without a
\* request for the editions listing, when the marker and the genres were
\* negative and the payload holds no editions id.
C17_FalseAfterStagesOrMissingId ==
    /\ FirstPositiveStageReturns
    /\ AudiobookReturned /\ ~b_result.returned =>
           FalseAfterEditionsListing \/ FalseWithoutEditionsId

\* a book without marker, audio genre and editions id was answered false
C17_Witness == AudiobookReturned /\ ~b_result.returned /\ FalseWithoutEditionsId

(***************************************************************************)
(* get_series_book_ids under SpecBook.                                     *)
(***************************************************************************)
IsInt(digits) == Len(digits) >= 1 /\ \A k \in 1..Len(digits) : digits[k] \in Digits

\* "Book <int>" or "Book <int>.<int>", nothing before or after
ExactLabel(title) ==
    /\ Len(title) >= 6
    /\ SubSeq(title, 1, 5) = BookPrefix
    /\ LET rest == SubSeq(title, 6, Len(title))
       IN  \/ IsInt(rest)
           \/ \E d \in 2..(Len(rest) - 1) :
                  /\ rest[d] = "."
                  /\ IsInt(SubSeq(rest, 1, d - 1))
                  /\ IsInt(SubSeq(rest, d + 1, Len(rest)))

\* C18: get_series_book_ids includes a row of the series listing if and only
\* if its label is exactly "Book <int>" or "Book <int>.<int>", with integers
\* of any number of digits; a book without series gives the empty set and
\* no request.
C18_ExactSeriesLabels ==
    phase = "book_series" /\ b_result.raised = "none" =>
        IF b_book.series = << >>
        THEN b_result.returned = {} /\ b_result.calls = << >>
        ELSE LET rows == b_cache[SeriesPath(b_book.series[1])].rows
             IN  b_result.returned
                     = {rows[k].href : k \in {n \in 1..Len(rows) : ExactLabel(rows[n].title)}}

====
